---------------------------- MODULE Spec2Model ----------------------------
(***************************************************************************)
(* Model of delay_webapp_cloud.py: the multi-account order locator         *)
(* (find_order_parallel over check_order_in_market / get_access_token),    *)
(* the dispatch-delay executor, the delay-reason classifier, the order-ID  *)
(* input parser and the per-order processing loop of main_app.             *)
(***************************************************************************)
EXTENDS Integers, Sequences, FiniteSets, TLC

VARIABLES
    nMarkets,      \* len(markets): the account list is markets[1..nMarkets]
    secretValid,   \* per account: client_secret is a salt bcrypt.hashpw accepts
    order_ids,     \* main_app: the parsed list of order IDs
    i,             \* main_app: 1-based position of the for loop in order_ids
    pc,            \* position of the main thread
    owners,        \* accounts whose order query answers with a non-empty data array
    j,             \* find_order_parallel: next account to submit
    probe,         \* per account: state of its future in the current executor
    consumed,      \* futures as_completed has already yielded
    pending,       \* what find_order_parallel is about to hand to its caller
    found,         \* main_app: the value find_order_parallel returned
    located,       \* history: per processed entry, what find_order_parallel returned
    sent,          \* history: delay requests put on the wire
    results,       \* main_app: the results list
    delay_reason,  \* classifier / executor input text
    reason_code,   \* classifier output
    order_input,   \* parser input text
    parsed,        \* parser output
    response,      \* executor: what the delay endpoint answered
    delay_result   \* executor: the outcome execute_delay_dispatch returned

vars == <<nMarkets, secretValid, order_ids, i, pc, owners, j, probe,
          consumed, pending, found, located, sent, results, delay_reason,
          reason_code, order_input, parsed, response, delay_result>>

mainVars == <<nMarkets, secretValid, order_ids, i, owners, j, probe, consumed,
              pending, found, located, sent, results>>

pureVars == <<delay_reason, reason_code, order_input, parsed, response,
              delay_result>>

(***************************************************************************)
(* Bounds of the model.  MAX_WORKERS is 20 in the source (line 26); the    *)
(* model scales it down, below MaxMarkets, so that account lists longer    *)
(* than the pool exist.                                                    *)
(***************************************************************************)
MaxMarkets == 3

MAX_WORKERS == 2

MaxOrders == 2

OrderIds == {"1001", "1002"}

LoopMarkets == 2

MaxInput == 4

MaxWords == 2

NoToken == [market |-> 0, ord |-> 0]

None == [kind |-> "none", market |-> 0, token |-> NoToken]

Raised == [kind |-> "raise", market |-> 0, token |-> NoToken]

Unset == [kind |-> "unset", market |-> 0, token |-> NoToken]

Markets == 1..nMarkets

Finished == {"hit", "none", "raised"}

Running == {"token", "query"}

IdleProbe == [st |-> "idle", ord |-> 0, token |-> NoToken]


(***************************************************************************)
(* S (lines 83-87): str(v).strip().  Texts are sequences of characters.    *)
(***************************************************************************)
Whitespace == {" ", "\t", "\n"}

RECURSIVE LStrip(_)
LStrip(s) ==
    IF s # <<>> /\ Head(s) \in Whitespace THEN LStrip(Tail(s)) ELSE s

RECURSIVE RStrip(_)
RStrip(s) ==
    IF s # <<>> /\ s[Len(s)] \in Whitespace
    THEN RStrip(SubSeq(s, 1, Len(s) - 1))
    ELSE s

S(v) == RStrip(LStrip(v))

\* str.replace(old, new) for single characters
Replace(s, old, new) == [k \in 1..Len(s) |-> IF s[k] = old THEN new ELSE s[k]]

\* str.split(sep) for a single-character separator: "" splits to [""]
RECURSIVE Split(_, _)
Split(s, sep) ==
    IF \A k \in 1..Len(s) : s[k] # sep
    THEN <<s>>
    ELSE LET k == CHOOSE n \in 1..Len(s) :
                      s[n] = sep /\ \A q \in 1..(n - 1) : s[q] # sep
         IN  <<SubSeq(s, 1, k - 1)>> \o Split(SubSeq(s, k + 1, Len(s)), sep)

RECURSIVE StrippedNonEmpty(_)
StrippedNonEmpty(segs) ==
    IF segs = <<>> THEN <<>>
    ELSE IF S(Head(segs)) # <<>>
         THEN <<S(Head(segs))>> \o StrippedNonEmpty(Tail(segs))
         ELSE StrippedNonEmpty(Tail(segs))

\* main_app lines 433-435: the list comprehension over the text area's value
ParseOrderIds(text) == StrippedNonEmpty(Split(Replace(text, ",", "\n"), "\n"))

(***************************************************************************)
(* get_delay_reason_code (lines 300-322).  A text is a sequence of Hangul  *)
(* syllables, written romanised; `in` is substring containment.            *)
(***************************************************************************)
Contains(sub, text) ==
    \E k \in 0..(Len(text) - Len(sub)) : SubSeq(text, k + 1, k + Len(sub)) = sub

Haeoe == <<"hae", "oe">>

Hyeonji == <<"hyeon", "ji">>

Baesongjung == <<"bae", "song", "jung">>

Jumunjejak == <<"ju", "mun", "je", "jak">>

Jejak == <<"je", "jak">>

Yeyak == <<"ye", "yak">>

Gogaek == <<"go", "gaek">>

Gumaeja == <<"gu", "mae", "ja">>

Yocheong == <<"yo", "cheong">>

Sangpum == <<"sang", "pum">>

Junbi == <<"jun", "bi">>

Jaego == <<"jae", "go">>

\* the classifier with the customer rule tried before the overseas rule
get_delay_reason_code_customer_first(text) ==
    IF Contains(Gogaek, text) \/ Contains(Gumaeja, text) \/ Contains(Yocheong, text)
    THEN "CUSTOMER_REQUEST"
    ELSE IF Contains(Haeoe, text) \/ Contains(Hyeonji, text) \/ Contains(Baesongjung, text)
    THEN "OVERSEA_DELIVERY"
    ELSE IF Contains(Jumunjejak, text) \/ Contains(Jejak, text)
    THEN "CUSTOM_BUILD"
    ELSE IF Contains(Yeyak, text)
    THEN "RESERVED_DISPATCH"
    ELSE IF Contains(Sangpum, text) \/ Contains(Junbi, text) \/ Contains(Jaego, text)
    THEN "PRODUCT_PREPARE"
    ELSE "ETC"

get_delay_reason_code(text) ==
    IF Contains(Haeoe, text) \/ Contains(Hyeonji, text) \/ Contains(Baesongjung, text)
    THEN "OVERSEA_DELIVERY"
    ELSE IF Contains(Jumunjejak, text) \/ Contains(Jejak, text)
    THEN "CUSTOM_BUILD"
    ELSE IF Contains(Yeyak, text)
    THEN "RESERVED_DISPATCH"
    ELSE IF Contains(Gogaek, text) \/ Contains(Gumaeja, text) \/ Contains(Yocheong, text)
    THEN "CUSTOMER_REQUEST"
    ELSE IF Contains(Sangpum, text) \/ Contains(Junbi, text) \/ Contains(Jaego, text)
    THEN "PRODUCT_PREPARE"
    ELSE "ETC"

(***************************************************************************)
(* execute_delay_dispatch (lines 325-358).  A string is modelled by its    *)
(* length.  A response is a transport failure or an HTTP answer with a     *)
(* status and a body: shape is what r.json() gives, msg the length of the  *)
(* "message" string (the element count of a "message" list, whose elements *)
(* are strings of length elem), text the length of r.text.                 *)
(***************************************************************************)
ErrorMsgLimit == 150

Min(a, b) == IF a < b THEN a ELSE b

\* len(str(lst)) for a list of n strings of length e: "['..', '..']"
ListReprLen(n, e) == IF n = 0 THEN 2 ELSE 2 + n * (e + 2) + (n - 1) * 2

\* lines 351-355: error_msg, as [type, len]; "text" is r.text
error_msg(resp) ==
    CASE resp.shape = "not_json"     -> [type |-> "str", len |-> resp.text]
      [] resp.shape = "json_nondict" -> [type |-> "str", len |-> resp.text]
      [] resp.shape = "no_message"   -> [type |-> "str", len |-> resp.text]
      [] resp.shape = "msg_str"      -> [type |-> "str", len |-> resp.msg]
      [] resp.shape = "msg_list"     -> [type |-> "list", len |-> resp.msg]
      [] resp.shape = "msg_null"     -> [type |-> "unsliceable", len |-> 0]
      [] resp.shape = "msg_number"   -> [type |-> "unsliceable", len |-> 0]
      [] resp.shape = "msg_dict"     -> [type |-> "unsliceable", len |-> 0]

execute_delay_dispatch(token, product_order_id, reason, resp) ==
    LET code == get_delay_reason_code(reason) IN
    IF resp.kind = "neterr"
    THEN [success |-> FALSE, message |-> [kind |-> "request_error", status |-> 0, detail |-> 0, code |-> ""]]
    ELSE IF resp.status = 200
    THEN [success |-> TRUE, message |-> [kind |-> "done", status |-> 0, detail |-> 0, code |-> code]]
    ELSE LET em == error_msg(resp) IN
         CASE em.type = "str" ->
                [success |-> FALSE,
                 message |-> [kind |-> "api_error", status |-> resp.status,
                              detail |-> Min(em.len, ErrorMsgLimit), code |-> ""]]
           [] em.type = "list" ->
                [success |-> FALSE,
                 message |-> [kind |-> "api_error", status |-> resp.status,
                              detail |-> ListReprLen(Min(em.len, ErrorMsgLimit), resp.elem),
                              code |-> ""]]
           [] em.type = "unsliceable" ->
                \* error_msg[:150] raises; the outer except (line 357) answers
                [success |-> FALSE, message |-> [kind |-> "request_error", status |-> 0, detail |-> 0, code |-> ""]]

(***************************************************************************)
(* The locator and the processing loop.                                    *)
(*                                                                         *)
(* Accounts are told apart by their position in the list only, so letting  *)
(* the owning position, the accounts with an unusable secret and the       *)
(* network answers range over every combination covers every ordering of   *)
(* the account list.                                                       *)
(***************************************************************************)
final_reason == <<"bae", "song", "jung", "ip", "ni", "da">>

\* answers of the delay endpoint the processing loop is run against
LoopResponses ==
    {[kind |-> "neterr", status |-> 0, shape |-> "not_json", msg |-> 0, elem |-> 0, text |-> 0],
     [kind |-> "http", status |-> 200, shape |-> "no_message", msg |-> 0, elem |-> 0, text |-> 2],
     [kind |-> "http", status |-> 404, shape |-> "msg_str", msg |-> 9, elem |-> 0, text |-> 23]}

NumRunning == Cardinality({m \in Markets : probe[m].st \in Running})

\* ThreadPoolExecutor: the work queue is FIFO, at most MAX_WORKERS threads
NextQueued(m) ==
    /\ probe[m].st = "queued"
    /\ \A q \in 1..(m - 1) : probe[q].st # "queued"
    /\ NumRunning < MAX_WORKERS

\* check_order_in_market lines 275-279: the populated result
ProbeHit(m, token) == [kind |-> "result", market |-> m, token |-> token]

\* an executor left with shutdown(wait=False): the call returns at once
ShutdownNoWait == TRUE

\* executor.__exit__ (line 287): shutdown(wait=True) joins every worker, and
\* the workers drain the queue before they stop
ShutdownComplete == \A m \in Markets : probe[m].st \in Finished

\* accounts whose secret signs: only these ever send an order query
Usable == {m \in Markets : secretValid[m]}

\* once find_order_parallel has returned, its executor and futures are garbage;
\* a task a worker still holds stays with that worker
Discard == [m \in Markets |-> IF probe[m].st \in Finished THEN IdleProbe ELSE probe[m]]

\* a loop that goes on to the delay call whatever the locator returned
NotFoundIgnored(f) == FALSE

\* main_app line 459: `if not found`
NotFound(f) == f.kind = "none"

\* main_app line 453/457: the loop takes the next order ID and calls
\* find_order_parallel, which creates the executor (line 287)
StartFind ==
    /\ pc = "loop"
    /\ i <= Len(order_ids)
    /\ \E o \in SUBSET Usable : owners' = o
    /\ j' = 1
    /\ pc' = IF nMarkets = 0 THEN "wait" ELSE "submit"
    /\ UNCHANGED <<nMarkets, secretValid, order_ids, i, probe, consumed, pending,
                   found, located, sent, results>>
    /\ UNCHANGED pureVars

\* main_app line 482: the loop is over
LoopEnd ==
    /\ pc = "loop"
    /\ i > Len(order_ids)
    /\ pc' = "done"
    /\ UNCHANGED mainVars
    /\ UNCHANGED pureVars

\* lines 288-291: executor.submit for the next account
Submit ==
    /\ pc = "submit"
    /\ j <= nMarkets
    /\ probe' = [probe EXCEPT ![j] = [st |-> "queued", ord |-> i, token |-> NoToken]]
    /\ j' = j + 1
    /\ pc' = IF j = nMarkets THEN "wait" ELSE "submit"
    /\ UNCHANGED <<nMarkets, secretValid, order_ids, i, owners, consumed, pending,
                   found, located, sent, results>>
    /\ UNCHANGED pureVars

\* a worker takes the task: check_order_in_market calls get_access_token, which
\* signs outside its try (line 198, sign_client_secret lines 186-189) and then
\* posts the token request (line 203)
WorkerStart(m) ==
    /\ NextQueued(m)
    /\ probe' = [probe EXCEPT ![m].st = IF secretValid[m] THEN "token" ELSE "raised"]
    /\ UNCHANGED <<nMarkets, secretValid, order_ids, i, pc, owners, j, consumed,
                   pending, found, located, sent, results>>
    /\ UNCHANGED pureVars

\* get_access_token lines 203-208 and check_order_in_market lines 257-270: the
\* token request answers; without a token the probe is over, with one the
\* order query is posted
TokenResponse(m) ==
    /\ probe[m].st = "token"
    /\ \E ok \in BOOLEAN :
         probe' = [probe EXCEPT ![m] =
                     IF ok
                     THEN [st |-> "query", ord |-> @.ord,
                           token |-> [market |-> m, ord |-> @.ord]]
                     ELSE [st |-> "none", ord |-> @.ord, token |-> NoToken]]
    /\ UNCHANGED <<nMarkets, secretValid, order_ids, i, pc, owners, j, consumed,
                   pending, found, located, sent, results>>
    /\ UNCHANGED pureVars

\* check_order_in_market lines 270-282: the order query answers
QueryResponse(m) ==
    /\ probe[m].st = "query"
    /\ \E ok \in BOOLEAN :
         probe' = [probe EXCEPT ![m].st = IF ok /\ m \in owners THEN "hit" ELSE "none"]
    /\ UNCHANGED <<nMarkets, secretValid, order_ids, i, pc, owners, j, consumed,
                   pending, found, located, sent, results>>
    /\ UNCHANGED pureVars

\* lines 293-296: as_completed yields a finished future; future.result() re-raises
\* what the probe raised; a return or a raise drops the iterator
Consume(m) ==
    /\ pc = "wait"
    /\ m \notin consumed
    /\ probe[m].st \in Finished
    /\ consumed' = IF probe[m].st = "none" THEN consumed \cup {m} ELSE {}
    /\ pending' = CASE probe[m].st = "hit"    -> ProbeHit(m, probe[m].token)
                    [] probe[m].st = "raised" -> Raised
                    [] probe[m].st = "none"   -> pending
    /\ pc' = IF probe[m].st = "none" THEN "wait" ELSE "exit"
    /\ UNCHANGED <<nMarkets, secretValid, order_ids, i, owners, j, probe, found,
                   located, sent, results>>
    /\ UNCHANGED pureVars

\* line 297: every future was yielded and none had a result
Exhausted ==
    /\ pc = "wait"
    /\ consumed = Markets
    /\ pending' = None
    /\ pc' = "exit"
    /\ UNCHANGED <<nMarkets, secretValid, order_ids, i, owners, j, probe, consumed,
                   found, located, sent, results>>
    /\ UNCHANGED pureVars

\* the with block is left (line 287), then find_order_parallel hands its value
\* or the exception to main_app (line 457)
FindReturn ==
    /\ pc = "exit"
    /\ ShutdownComplete
    /\ found' = pending
    /\ located' = Append(located, pending)
    /\ pc' = IF pending.kind = "raise" THEN "crashed" ELSE "found"
    /\ UNCHANGED <<nMarkets, secretValid, order_ids, i, owners, j, probe, consumed,
                   pending, sent, results>>
    /\ UNCHANGED pureVars

\* lines 459-466
AppendNotFound ==
    /\ pc = "found"
    /\ NotFound(found)
    /\ results' = Append(results, [order_id |-> order_ids[i], market |-> 0, ok |-> FALSE])
    /\ i' = i + 1
    /\ pc' = "loop"
    /\ probe' = Discard
    /\ consumed' = {}
    /\ owners' = {}
    /\ pending' = Unset
    /\ found' = Unset
    /\ UNCHANGED <<nMarkets, secretValid, order_ids, j, located, sent>>
    /\ UNCHANGED pureVars

\* lines 468-473, execute_delay_dispatch line 347: the delay request goes out
DelayRequest ==
    /\ pc = "found"
    /\ ~NotFound(found)
    /\ sent' = Append(sent, [idx |-> i, order_id |-> order_ids[i], token |-> found.token])
    /\ pc' = "delay"
    /\ probe' = Discard
    /\ consumed' = {}
    /\ owners' = {}
    /\ pending' = Unset
    /\ UNCHANGED <<nMarkets, secretValid, order_ids, i, j, found, located, results>>
    /\ UNCHANGED pureVars

\* execute_delay_dispatch lines 347-358 and main_app lines 475-480
DelayResponse ==
    /\ pc = "delay"
    /\ \E resp \in LoopResponses :
         LET r == execute_delay_dispatch(found.token, order_ids[i], final_reason, resp)
         IN  results' = Append(results, [order_id |-> order_ids[i],
                                         market |-> found.market, ok |-> r.success])
    /\ i' = i + 1
    /\ pc' = "loop"
    /\ found' = Unset
    /\ UNCHANGED <<nMarkets, secretValid, order_ids, owners, j, probe, consumed,
                   pending, located, sent>>
    /\ UNCHANGED pureVars

RECURSIVE SeqsUpTo(_, _)
SeqsUpTo(set, n) ==
    IF n = 0 THEN {<<>>}
    ELSE LET shorter == SeqsUpTo(set, n - 1)
         IN  shorter \cup {Append(q, x) : q \in shorter, x \in set}

\* the processing loop starts (line 453) with n accounts loaded at most
InitLoop(n) ==
    /\ nMarkets \in 0..n
    /\ secretValid \in [1..nMarkets -> BOOLEAN]
    /\ order_ids \in SeqsUpTo(OrderIds, MaxOrders) \ {<<>>}
    /\ i = 1
    /\ pc = "loop"
    /\ owners = {}
    /\ j = 1
    /\ probe = [m \in 1..nMarkets |-> IdleProbe]
    /\ consumed = {}
    /\ pending = Unset
    /\ found = Unset
    /\ located = <<>>
    /\ sent = <<>>
    /\ results = <<>>
    /\ delay_reason = final_reason
    /\ reason_code = ""
    /\ order_input = <<>>
    /\ parsed = <<>>
    /\ response = Unset
    /\ delay_result = Unset

Init == InitLoop(MaxMarkets)

Next ==
    \/ StartFind
    \/ LoopEnd
    \/ Submit
    \/ \E m \in Markets : WorkerStart(m)
    \/ \E m \in Markets : TokenResponse(m)
    \/ \E m \in Markets : QueryResponse(m)
    \/ \E m \in Markets : Consume(m)
    \/ Exhausted
    \/ FindReturn
    \/ AppendNotFound
    \/ DelayRequest
    \/ DelayResponse

Spec == Init /\ [][Next]_vars

\* the same program with shorter account lists
InitSmall == InitLoop(LoopMarkets)

SpecLoop == InitSmall /\ [][Next]_vars

(***************************************************************************)
(* The pure functions, each applied once to an input drawn from a bounded  *)
(* set.                                                                    *)
(***************************************************************************)
LoopIdle ==
    /\ nMarkets = 0
    /\ secretValid = <<>>
    /\ order_ids = <<>>
    /\ i = 1
    /\ owners = {}
    /\ j = 1
    /\ probe = <<>>
    /\ consumed = {}
    /\ pending = Unset
    /\ found = Unset
    /\ located = <<>>
    /\ sent = <<>>
    /\ results = <<>>

Alphabet == {",", "\n", " ", "1", "2"}

ExampleInput ==
    <<"1", "0", "0", "1", ",", " ", "1", "0", "0", "2", "\n", "1", "0", "0", "3">>

InitParse ==
    /\ LoopIdle
    /\ pc = "parse"
    /\ order_input \in SeqsUpTo(Alphabet, MaxInput) \cup {ExampleInput}
    /\ parsed = <<>>
    /\ delay_reason = <<>>
    /\ reason_code = ""
    /\ response = Unset
    /\ delay_result = Unset

\* main_app lines 432-439: the button handler parses the text area; with no
\* order ID left it warns and returns
Parse ==
    /\ pc = "parse"
    /\ parsed' = ParseOrderIds(order_input)
    /\ pc' = IF ParseOrderIds(order_input) = <<>> THEN "warned" ELSE "parsed"
    /\ UNCHANGED mainVars
    /\ UNCHANGED <<delay_reason, reason_code, order_input, response, delay_result>>

SpecParse == InitParse /\ [][Parse]_vars

Words ==
    {Haeoe, Hyeonji, Baesongjung, Jumunjejak, Jejak, Yeyak, Gogaek, Gumaeja,
     Yocheong, Sangpum, Junbi, Jaego, <<"gi", "ta">>, <<"gaek">>}

RECURSIVE TextsUpTo(_)
TextsUpTo(n) ==
    IF n = 0 THEN {<<>>}
    ELSE LET shorter == TextsUpTo(n - 1)
         IN  shorter \cup {t \o w : t \in shorter, w \in Words}

InitClassify ==
    /\ LoopIdle
    /\ pc = "classify"
    /\ delay_reason \in TextsUpTo(MaxWords)
    /\ reason_code = ""
    /\ order_input = <<>>
    /\ parsed = <<>>
    /\ response = Unset
    /\ delay_result = Unset

\* a call of get_delay_reason_code (line 336)
Classify ==
    /\ pc = "classify"
    /\ reason_code' = get_delay_reason_code(delay_reason)
    /\ pc' = "classified"
    /\ UNCHANGED mainVars
    /\ UNCHANGED <<delay_reason, order_input, parsed, response, delay_result>>

SpecClassify == InitClassify /\ [][Classify]_vars

Shapes ==
    {"not_json", "json_nondict", "no_message", "msg_str", "msg_list", "msg_null",
     "msg_number", "msg_dict"}

Responses ==
    {[kind |-> "neterr", status |-> 0, shape |-> "not_json", msg |-> 0, elem |-> 0, text |-> 0]}
    \cup [kind : {"http"}, status : {200, 400, 404, 500}, shape : Shapes,
          msg : {0, 9, 151}, elem : {200}, text : {23, 151}]

InitExecute ==
    /\ LoopIdle
    /\ pc = "execute"
    /\ delay_reason \in {final_reason, Gogaek \o Yocheong, <<"gi", "ta">>}
    /\ response \in Responses
    /\ reason_code = ""
    /\ order_input = <<>>
    /\ parsed = <<>>
    /\ delay_result = Unset

\* a call of execute_delay_dispatch (lines 325-358) against one answer
Execute ==
    /\ pc = "execute"
    /\ delay_result' = execute_delay_dispatch(NoToken, "1001", delay_reason, response)
    /\ pc' = "executed"
    /\ UNCHANGED mainVars
    /\ UNCHANGED <<delay_reason, reason_code, order_input, parsed, response>>

SpecExecute == InitExecute /\ [][Execute]_vars


(***************************************************************************)
(* Properties.                                                             *)
(***************************************************************************)
Active == {"queued", "token", "query"}

\* find_order_parallel has handed its value or its exception to main_app
FindOver == pc \in {"found", "crashed"}

\* C1: an order owned by exactly one account, whose token request and order
\* query succeeded, is located: find_order_parallel returns a result whose
\* market is that account, wherever it stands in the list and in whatever
\* order the probes complete.
C1_OwnerIsLocated ==
    (FindOver /\ Cardinality(owners) = 1 /\ \A m \in owners : probe[m].st = "hit")
        => (found.kind = "result" /\ found.market \in owners)

\* C2: once a probe's positive result has been taken, find_order_parallel can
\* return at once: it does not wait for probes still running or queued.
C2_ReturnsWithoutWaiting ==
    (pc = "exit" /\ pending.kind = "result") => ENABLED FindReturn

\* C3: every order ID gets exactly one outcome record, whatever failed: no
\* exception leaves the per-order step and, when the loop is over, results
\* holds one record per entry of order_ids.
C3_OneRecordPerOrder ==
    /\ pc # "crashed"
    /\ pc = "done" =>
         /\ Len(results) = Len(order_ids)
         /\ \A k \in 1..Len(results) : results[k].order_id = order_ids[k]

\* token issuance failed for account m: signing raised, or the request gave none
TokenFailed(m) ==
    \/ probe[m].st = "raised"
    \/ probe[m].st = "none" /\ probe[m].token = NoToken

\* C4: when token issuance fails for one account and another account owns the
\* order and answers, find_order_parallel still returns the owner's result: the
\* failure never aborts the locate.
C4_TokenFailureDoesNotAbort ==
    (FindOver /\ \E b \in Markets : TokenFailed(b) /\ \E w \in owners \ {b} : probe[w].st = "hit")
        => (pc # "crashed" /\ found.kind = "result" /\ probe[found.market].st = "hit")

NoDuplicates(q) == \A a, b \in 1..Len(q) : a # b => q[a] # q[b]

\* C5: the parsed list holds the trimmed non-blank segments in input order with
\* duplicates removed, each distinct order ID once.
C5_ParsedWithoutDuplicates ==
    pc \in {"parsed", "warned"} =>
        /\ NoDuplicates(parsed)
        /\ \A k \in 1..Len(parsed) : parsed[k] # <<>> /\ S(parsed[k]) = parsed[k]

\* C6: when no account's probe yields a positive result, find_order_parallel
\* returns none, and only after every probe completed with none.
C6_NoneWhenNoProbeHits ==
    (FindOver /\ \A m \in Markets : probe[m].st # "hit")
        => (found = None /\ \A m \in Markets : probe[m].st = "none")

\* C7: processing of different order IDs never overlaps: no probe of an earlier
\* order is unfinished once a probe of a later order exists, no probe of a later
\* order exists while the current order (its locate or its delay request) is
\* being processed, and the records are appended in input order, one per
\* processed entry.
C7_NoOverlapInOrder ==
    /\ \A m1, m2 \in Markets :
         (probe[m1].st \in Active /\ probe[m2].st # "idle") => probe[m1].ord >= probe[m2].ord
    /\ \A m \in Markets : probe[m].st # "idle" => probe[m].ord <= i
    /\ \A k \in 1..Len(sent) : sent[k].idx <= i
    /\ Len(results) = i - 1
    /\ \A k \in 1..Len(results) : results[k].order_id = order_ids[k]

C7_SecondOrderProbedAfterFirstDelayed ==
    /\ Len(results) = 1
    /\ Len(sent) = 1
    /\ \E m \in Markets : probe[m].st \in Running /\ probe[m].ord = 2

\* C8: execute_delay_dispatch always returns an outcome: 200 gives success with
\* the classified reason code; any other status gives a failure message with the
\* status code and the server message cut to at most 150 characters, whatever
\* the body; a transport failure gives a failure with the exception text.
C8_OutcomeForEveryAnswer ==
    pc = "executed" =>
        /\ (response.kind = "http" /\ response.status = 200) =>
             /\ delay_result.success
             /\ delay_result.message.kind = "done"
             /\ delay_result.message.code = get_delay_reason_code(delay_reason)
        /\ (response.kind = "http" /\ response.status # 200) =>
             /\ ~delay_result.success
             /\ delay_result.message.kind = "api_error"
             /\ delay_result.message.status = response.status
             /\ delay_result.message.detail <= ErrorMsgLimit
        /\ response.kind = "neterr" =>
             /\ ~delay_result.success
             /\ delay_result.message.kind = "request_error"

ReasonCodes ==
    {"CUSTOM_BUILD", "RESERVED_DISPATCH", "ETC", "PRODUCT_PREPARE",
     "OVERSEA_DELIVERY", "CUSTOMER_REQUEST"}

\* the priority table: rule k's terms and its code
Rules ==
    <<[terms |-> {Haeoe, Hyeonji, Baesongjung}, code |-> "OVERSEA_DELIVERY"],
      [terms |-> {Jumunjejak, Jejak}, code |-> "CUSTOM_BUILD"],
      [terms |-> {Yeyak}, code |-> "RESERVED_DISPATCH"],
      [terms |-> {Gogaek, Gumaeja, Yocheong}, code |-> "CUSTOMER_REQUEST"],
      [terms |-> {Sangpum, Junbi, Jaego}, code |-> "PRODUCT_PREPARE"]>>

Matches(k, text) == \E t \in Rules[k].terms : Contains(t, text)

\* C9: the classifier answers one of the six codes: the code of the first rule,
\* in the fixed priority order, one of whose terms the text contains, else ETC;
\* a text with an overseas term and a customer term is OVERSEA_DELIVERY.
C9_FirstMatchingRuleWins ==
    pc = "classified" =>
        /\ reason_code \in ReasonCodes
        /\ \A k \in 1..Len(Rules) :
             (Matches(k, delay_reason) /\ \A q \in 1..(k - 1) : ~Matches(q, delay_reason))
                 => reason_code = Rules[k].code
        /\ (\A k \in 1..Len(Rules) : ~Matches(k, delay_reason)) => reason_code = "ETC"
        /\ (Matches(1, delay_reason) /\ Matches(4, delay_reason))
             => reason_code = "OVERSEA_DELIVERY"

C9_OverseasAndCustomerClassified ==
    /\ pc = "classified"
    /\ Matches(1, delay_reason)
    /\ Matches(4, delay_reason)
    /\ reason_code = "OVERSEA_DELIVERY"

\* C10: a delay request is sent for an entry only after find_order_parallel
\* returned a result for that entry, with the token of that result, which is
\* the token issued to the account that found the order; an entry that was not
\* found gets no request, and no entry gets two.
C10_DelayOnlyWithLocatedToken ==
    /\ \A k \in 1..Len(sent) :
         /\ sent[k].idx \in 1..Len(located)
         /\ sent[k].order_id = order_ids[sent[k].idx]
         /\ located[sent[k].idx].kind = "result"
         /\ sent[k].token = located[sent[k].idx].token
         /\ sent[k].token = [market |-> located[sent[k].idx].market, ord |-> sent[k].idx]
    /\ \A a, b \in 1..Len(sent) : a # b => sent[a].idx # sent[b].idx

C10_DelaySentAfterAMissAndAHit ==
    /\ pc = "delay"
    /\ Len(located) = 2
    /\ located[1].kind = "none"
    /\ located[2].kind = "result"
    /\ Len(sent) = 1
    /\ sent[1].idx = 2

=============================================================================
